---------------------------- MODULE Spec2Model ----------------------------
(***************************************************************************)
(* Model of server_environment/models/server_env_mixin.py (ServerEnvMixin).*)
(*                                                                         *)
(* The mixin rewrites the fields named by _server_env_fields into computed *)
(* fields (_setup_base), adds a companion <field>_env_default field, and   *)
(* resolves the value of each such field from the configuration files or   *)
(* from the companion field (_compute_server_env).                         *)
(*                                                                         *)
(* Strings the code transforms are sequences: a model name or a record     *)
(* name is a sequence of characters, a field name is a sequence of tokens  *)
(* (the base name, then one "_env_default" per application of the naming   *)
(* rule).  Python values are records [kind, s, n, b].                      *)
(***************************************************************************)
EXTENDS Integers, Sequences, FiniteSets, TLC

VARIABLES
    _fields,        \* self._fields: field name -> field descriptor
    envFields,      \* self._server_env_fields, in iteration order
    addCalls,       \* field name -> number of self._add_field calls
    setupRuns,      \* number of _setup_base calls so far
    setupStatus,    \* outcome of the last _setup_base: none, ok, KeyError
    names,          \* record -> record.name (display name)
    defaults,       \* record -> field -> record[<field>_env_default]
    values,         \* record -> field -> record[<field>] (in-memory slot)
    serv_config,    \* the configuration: section -> key -> raw string
    computeStatus,  \* outcome of the last _compute_server_env
    logged          \* <<field, section>> pairs passed to _logger.exception

vars == <<_fields, envFields, addCalls, setupRuns, setupStatus, names,
          defaults, values, serv_config, computeStatus, logged>>

setupVars == <<_fields, addCalls, setupRuns, setupStatus>>
recordVars == <<names, defaults, values, computeStatus, logged>>

(***************************************************************************)
(* Bounds                                                                  *)
(***************************************************************************)
MaxSetups == 2

RecordIds == {"r1", "r2"}

(***************************************************************************)
(* Python values                                                           *)
(***************************************************************************)
MkStr(s) == [kind |-> "str", s |-> s, n |-> 0, b |-> FALSE]
MkInt(n) == [kind |-> "int", s |-> <<>>, n |-> n, b |-> FALSE]
MkBool(b) == [kind |-> "bool", s |-> <<>>, n |-> 0, b |-> b]
PyFalse == MkBool(FALSE)
\* the slot of a computed field that no compute has filled yet
NotComputed == [kind |-> "unset", s |-> <<>>, n |-> 0, b |-> FALSE]

(***************************************************************************)
(* Names                                                                   *)
(***************************************************************************)
_name == <<"s", ".", "b">>

\* record.name of a record whose name was never set (Odoo reads False)
NameUnset == <<"False">>
RecordNames == {<<"A">>, <<"B">>, NameUnset}

Host == <<"host">>
Port == <<"port">>
BaseNames == {Host, Port}

\* str.replace(".", "_")
Replace(s) == [i \in 1..Len(s) |-> IF s[i] = "." THEN "_" ELSE s[i]]

_server_env_default_fieldname(base_field_name) ==
    Append(base_field_name, "_env_default")


(***************************************************************************)
(* Field descriptors                                                       *)
(*                                                                         *)
(* A descriptor is [cls, args, attrs]: its class, the constructor          *)
(* arguments it keeps in field.args, and its attributes.  Attribute and    *)
(* argument values are written as Python literals.                         *)
(***************************************************************************)
AttrNames == {"compute", "store", "copy", "sparse", "automatic"}

\* attribute values of a field whose constructor got no such argument
FieldDefaults ==
    [compute |-> "None", store |-> "True", copy |-> "True",
     sparse |-> "None", automatic |-> "False"]

\* base_field_cls(**field_args): the constructor keeps the arguments it was
\* called with and sets the attributes they name
NewField(cls, args) ==
    [cls |-> cls,
     args |-> args,
     attrs |-> [a \in AttrNames |->
                  IF a \in DOMAIN args THEN args[a] ELSE FieldDefaults[a]]]

\* field_args.pop('_sequence', None)
Pop(args, key) == [k \in DOMAIN args \ {key} |-> args[k]]

\* Mutant of Update: the 'sparse' entry is forgotten.
MutUpdateNoSparse(args) ==
    [k \in DOMAIN args \cup {"automatic"} |->
        IF k = "automatic" THEN "True" ELSE args[k]]

\* field_args.update({'sparse': 'server_env_defaults', 'automatic': True})
Update(args) ==
    [k \in DOMAIN args \cup {"sparse", "automatic"} |->
        IF k = "sparse" THEN "server_env_defaults"
        ELSE IF k = "automatic" THEN "True"
        ELSE args[k]]

\* self._add_field(fieldname, field)
_add_field(flds, fieldname, field) ==
    [n \in DOMAIN flds \cup {fieldname} |->
        IF n = fieldname THEN field ELSE flds[n]]

\* Mutant of the transformation: field.sparse = None is left out.
MutTransformKeepsSparse(flds, fieldname) ==
    [flds EXCEPT ![fieldname].attrs =
        [a \in AttrNames |->
            CASE a = "compute" -> "_compute_server_env"
              [] a = "store" -> "False"
              [] a = "copy" -> "False"
              [] OTHER -> @[a]]]

\* The four assignments to the descriptor, made in place.
_server_env_transform_field_to_read_from_env(flds, fieldname) ==
    [flds EXCEPT ![fieldname].attrs =
        [a \in AttrNames |->
            CASE a = "compute" -> "_compute_server_env"
              [] a = "store" -> "False"
              [] a = "copy" -> "False"
              [] a = "sparse" -> "None"
              [] OTHER -> @[a]]]

\* field_args = base_field.args binds the descriptor's own dictionary, so
\* pop and update change base_field.args; ** passes a copy to the constructor.
AddDefaultFieldBody(flds, adds, base_name) ==
    LET fieldname == _server_env_default_fieldname(base_name)
        base_field == flds[base_name]
        field_args == Update(Pop(base_field.args, "_sequence"))
        field == NewField(base_field.cls, field_args)
        mutated == [flds EXCEPT ![base_name].args = field_args]
    IN  [fields |-> _add_field(mutated, fieldname, field),
         adds |-> [adds EXCEPT ![fieldname] = @ + 1]]

\* Mutant of _server_env_add_default_field: no test for an existing field.
MutAddDefaultAlways(flds, adds, base_name) ==
    AddDefaultFieldBody(flds, adds, base_name)

_server_env_add_default_field(flds, adds, base_name) ==
    IF _server_env_default_fieldname(base_name) \notin DOMAIN flds
    THEN AddDefaultFieldBody(flds, adds, base_name)
    ELSE [fields |-> flds, adds |-> adds]

\* The loop of _setup_base over the names still to process.  self._fields[
\* fieldname] raises KeyError for a name that is no field; what the loop did
\* before stays done.
RECURSIVE SetupLoop(_, _, _)

\* Mutant of the loop: a name that is no field is skipped silently.
MutSetupLoopSkip(flds, adds, todo) ==
    IF todo = <<>> THEN [fields |-> flds, adds |-> adds, status |-> "ok"]
    ELSE IF Head(todo).name \notin DOMAIN flds
    THEN SetupLoop(flds, adds, Tail(todo))
    ELSE LET t == _server_env_transform_field_to_read_from_env(
                      flds, Head(todo).name)
             r == _server_env_add_default_field(t, adds, Head(todo).name)
         IN  SetupLoop(r.fields, r.adds, Tail(todo))

SetupLoop(flds, adds, todo) ==
    IF todo = <<>> THEN [fields |-> flds, adds |-> adds, status |-> "ok"]
    ELSE LET fieldname == Head(todo).name IN
         IF fieldname \notin DOMAIN flds
         THEN [fields |-> flds, adds |-> adds, status |-> "KeyError"]
         ELSE LET t == _server_env_transform_field_to_read_from_env(
                           flds, fieldname)
                  r == _server_env_add_default_field(t, adds, fieldname)
              IN  SetupLoop(r.fields, r.adds, Tail(todo))

\* _setup_base.  super()._setup_base() is the framework's hook; it is taken
\* to leave the registry of an already built model as it is.
_setup_base ==
    /\ setupRuns < MaxSetups
    /\ LET r == SetupLoop(_fields, addCalls, envFields) IN
        /\ _fields' = r.fields
        /\ addCalls' = r.adds
        /\ setupStatus' = r.status
    /\ setupRuns' = setupRuns + 1
    /\ UNCHANGED <<envFields, serv_config>>
    /\ UNCHANGED recordVars

(***************************************************************************)
(* Declared models                                                         *)
(***************************************************************************)
HostDefault == _server_env_default_fieldname(Host)
PortDefault == _server_env_default_fieldname(Port)
Blob == <<"server_env_defaults">>
FieldNames == BaseNames \cup {HostDefault, PortDefault, Blob}

\* The fields a model may declare in its class body.  hostSparse tells
\* whether host was declared with sparse='legacy_blob'.
DeclaredField(n, hostSparse) ==
    CASE n = Host ->
            NewField("Char",
                IF hostSparse
                THEN [_sequence |-> "11", string |-> "Host",
                      sparse |-> "legacy_blob"]
                ELSE [_sequence |-> "11", string |-> "Host"])
      [] n = Port ->
            NewField("Integer", [_sequence |-> "12", string |-> "Port"])
      [] n = HostDefault ->
            NewField("Char", [_sequence |-> "13", string |-> "Host default"])
      [] n = PortDefault ->
            NewField("Integer", [_sequence |-> "14", required |-> "True"])
      [] OTHER -> NewField("Serialized", [_sequence |-> "10"])

DeclaredModel(declared, hostSparse) ==
    [n \in declared \cup {Blob} |-> DeclaredField(n, hostSparse)]

\* _server_env_fields: one or both of host and port, with a getter each.
\* "getbool" is the name the docstring gives; the configuration object has
\* no such attribute.
EnvFieldChoices ==
    {<<[name |-> Host, getter |-> "get"]>>,
     <<[name |-> Host, getter |-> "getbool"]>>,
     <<[name |-> Port, getter |-> "getint"]>>,
     <<[name |-> Port, getter |-> "getboolean"]>>,
     <<[name |-> Host, getter |-> "get"], [name |-> Port, getter |-> "getint"]>>,
     <<[name |-> Port, getter |-> "getint"], [name |-> Host, getter |-> "get"]>>,
     <<[name |-> Host, getter |-> "getbool"],
       [name |-> Port, getter |-> "getboolean"]>>}

EnvNames == {envFields[i].name : i \in 1..Len(envFields)}

(***************************************************************************)
(* Schema setup alone                                                      *)
(***************************************************************************)
NoRecords == [r \in RecordIds |-> [f \in BaseNames |-> NotComputed]]

InitNoRecords ==
    /\ names = [r \in RecordIds |-> NameUnset]
    /\ defaults = [r \in RecordIds |-> [f \in BaseNames |-> PyFalse]]
    /\ values = NoRecords
    /\ serv_config = <<>>
    /\ computeStatus = "none"
    /\ logged = {}

InitSetup ==
    /\ \E declared \in SUBSET (BaseNames \cup {HostDefault, PortDefault}),
          hostSparse \in BOOLEAN :
            _fields = DeclaredModel(declared, hostSparse)
    /\ envFields \in EnvFieldChoices
    /\ addCalls = [n \in FieldNames |-> 0]
    /\ setupRuns = 0
    /\ setupStatus = "none"
    /\ InitNoRecords

NextSetup == _setup_base

SpecSetup == InitSetup /\ [][NextSetup]_vars

(***************************************************************************)
(* The configuration object (serv_config, a configparser)                  *)
(***************************************************************************)
Digits == {"0", "1", "2", "3", "4", "5", "6", "7", "8", "9"}
DigitValue(c) ==
    CASE c = "0" -> 0 [] c = "1" -> 1 [] c = "2" -> 2 [] c = "3" -> 3
      [] c = "4" -> 4 [] c = "5" -> 5 [] c = "6" -> 6 [] c = "7" -> 7
      [] c = "8" -> 8 [] OTHER -> 9

\* the characters int() skips before and after the literal: tab, line feed,
\* vertical tab, form feed, carriage return, space, U+0085 and U+00A0
\* (U+001C to U+001F, which str.strip() removes, are no space to int())
IntSpace == {"\t", "\n", "", "\f", "\r", " ", "", " "}

RECURSIVE StripIntSpace(_)
StripIntSpace(raw) ==
    IF raw = <<>> THEN raw
    ELSE IF Head(raw) \in IntSpace THEN StripIntSpace(Tail(raw))
    ELSE IF raw[Len(raw)] \in IntSpace
    THEN StripIntSpace(SubSeq(raw, 1, Len(raw) - 1))
    ELSE raw

\* the literal without its sign
Unsigned(t) == IF t # <<>> /\ Head(t) \in {"+", "-"} THEN Tail(t) ELSE t

\* digits, with single underscores between them
IsDigitString(u) ==
    /\ u # <<>>
    /\ \A i \in 1..Len(u) : u[i] \in Digits \cup {"_"}
    /\ u[1] \in Digits /\ u[Len(u)] \in Digits
    /\ \A i \in 1..(Len(u) - 1) : ~(u[i] = "_" /\ u[i + 1] = "_")

RECURSIVE DigitsValue(_)
DigitsValue(u) ==
    IF u = <<>> THEN 0
    ELSE IF u[Len(u)] = "_" THEN DigitsValue(SubSeq(u, 1, Len(u) - 1))
    ELSE 10 * DigitsValue(SubSeq(u, 1, Len(u) - 1)) + DigitValue(u[Len(u)])

\* int(raw) succeeds: surrounding whitespace, one optional sign, digits
IsIntLiteral(raw) == IsDigitString(Unsigned(StripIntSpace(raw)))

\* int(raw) of a raw value it accepts
ParseInt(raw) ==
    LET t == StripIntSpace(raw) IN
    IF t # <<>> /\ Head(t) = "-"
    THEN 0 - DigitsValue(Unsigned(t))
    ELSE DigitsValue(Unsigned(t))

\* str.lower() on one character: the capitals A to Z and U+00C0 to U+00DE
\* (but U+00D7) have a small letter
LowerChar(c) ==
    CASE c = "A" -> "a"
      [] c = "B" -> "b"
      [] c = "C" -> "c"
      [] c = "D" -> "d"
      [] c = "E" -> "e"
      [] c = "F" -> "f"
      [] c = "G" -> "g"
      [] c = "H" -> "h"
      [] c = "I" -> "i"
      [] c = "J" -> "j"
      [] c = "K" -> "k"
      [] c = "L" -> "l"
      [] c = "M" -> "m"
      [] c = "N" -> "n"
      [] c = "O" -> "o"
      [] c = "P" -> "p"
      [] c = "Q" -> "q"
      [] c = "R" -> "r"
      [] c = "S" -> "s"
      [] c = "T" -> "t"
      [] c = "U" -> "u"
      [] c = "V" -> "v"
      [] c = "W" -> "w"
      [] c = "X" -> "x"
      [] c = "Y" -> "y"
      [] c = "Z" -> "z"
      [] c = "À" -> "à"
      [] c = "Á" -> "á"
      [] c = "Â" -> "â"
      [] c = "Ã" -> "ã"
      [] c = "Ä" -> "ä"
      [] c = "Å" -> "å"
      [] c = "Æ" -> "æ"
      [] c = "Ç" -> "ç"
      [] c = "È" -> "è"
      [] c = "É" -> "é"
      [] c = "Ê" -> "ê"
      [] c = "Ë" -> "ë"
      [] c = "Ì" -> "ì"
      [] c = "Í" -> "í"
      [] c = "Î" -> "î"
      [] c = "Ï" -> "ï"
      [] c = "Ð" -> "ð"
      [] c = "Ñ" -> "ñ"
      [] c = "Ò" -> "ò"
      [] c = "Ó" -> "ó"
      [] c = "Ô" -> "ô"
      [] c = "Õ" -> "õ"
      [] c = "Ö" -> "ö"
      [] c = "Ø" -> "ø"
      [] c = "Ù" -> "ù"
      [] c = "Ú" -> "ú"
      [] c = "Û" -> "û"
      [] c = "Ü" -> "ü"
      [] c = "Ý" -> "ý"
      [] c = "Þ" -> "þ"
      [] OTHER -> c

Lower(raw) == [i \in 1..Len(raw) |-> LowerChar(raw[i])]

\* the keys of BOOLEAN_STATES, by the value they stand for
TrueStates == {<<"1">>, <<"y", "e", "s">>, <<"t", "r", "u", "e">>, <<"o", "n">>}
FalseStates ==
    {<<"0">>, <<"n", "o">>, <<"f", "a", "l", "s", "e">>, <<"o", "f", "f">>}

\* the raw values getboolean reads as True, as False: value.lower() is a key
TrueLiterals == {raw \in Seq(STRING) : Lower(raw) \in TrueStates}
FalseLiterals == {raw \in Seq(STRING) : Lower(raw) \in FalseStates}

\* the getter names the model covers: the three of the docstring and
\* getboolean
GetterDomain == {"get", "getint", "getboolean", "getbool"}

\* getattr(serv_config, config_getter) finds the attribute; the parser has
\* no getbool
HasGetter == [g \in GetterDomain |-> g # "getbool"]

\* section_name in serv_config and field_name in serv_config[section_name]
HasSectionAndKey(section_name, field_name) ==
    /\ section_name \in DOMAIN serv_config
    /\ field_name \in DOMAIN serv_config[section_name]

\* the spelling of a field name, as an option name is written in a value
TokenSpelling(t) ==
    CASE t = "host" -> <<"h", "o", "s", "t">>
      [] t = "port" -> <<"p", "o", "r", "t">>
      [] t = "_env_default" ->
            <<"_", "e", "n", "v", "_", "d", "e", "f", "a", "u", "l", "t">>
      [] t = "server_env_defaults" ->
            <<"s", "e", "r", "v", "e", "r", "_", "e", "n", "v", "_",
              "d", "e", "f", "a", "u", "l", "t", "s">>

RECURSIVE Spelling(_)
Spelling(field_name) ==
    IF field_name = <<>> THEN <<>>
    ELSE TokenSpelling(Head(field_name)) \o Spelling(Tail(field_name))

\* the options of the section whose name is spelled var
OptionsSpelled(section_name, var) ==
    {k \in DOMAIN serv_config[section_name] : Spelling(k) = var}

MAX_INTERPOLATION_DEPTH == 10

InterpolationError == [ok |-> FALSE, s |-> <<>>]

\* BasicInterpolation._interpolate_some on the text rest: a text without %
\* is taken as it is, %% gives %,
\* %(name)s the value of the option name (lower-cased) of the same section,
\* itself interpolated one level deeper; any other % and a missing option
\* are errors, as is a depth over MAX_INTERPOLATION_DEPTH.
RECURSIVE InterpolateSome(_, _, _)
InterpolateSome(section_name, rest, depth) ==
    IF depth > MAX_INTERPOLATION_DEPTH THEN InterpolationError
    ELSE IF \A i \in 1..Len(rest) : rest[i] # "%"
    THEN [ok |-> TRUE, s |-> rest]
    ELSE IF Head(rest) # "%"
    THEN LET r == InterpolateSome(section_name, Tail(rest), depth) IN
         IF r.ok THEN [ok |-> TRUE, s |-> <<Head(rest)>> \o r.s] ELSE r
    ELSE IF Len(rest) >= 2 /\ rest[2] = "%"
    THEN LET r == InterpolateSome(
                      section_name, SubSeq(rest, 3, Len(rest)), depth) IN
         IF r.ok THEN [ok |-> TRUE, s |-> <<"%">> \o r.s] ELSE r
    ELSE IF Len(rest) >= 2 /\ rest[2] = "("
    THEN LET closes == {j \in 3..Len(rest) : rest[j] = ")"} IN
         IF closes = {} THEN InterpolationError
         ELSE
         LET j == CHOOSE x \in closes : \A y \in closes : x <= y IN
         IF j = 3 \/ j = Len(rest) \/ rest[j + 1] # "s"
         THEN InterpolationError
         ELSE
         LET found == OptionsSpelled(
                          section_name, Lower(SubSeq(rest, 3, j - 1)))
         IN
         IF found = {} THEN InterpolationError
         ELSE
         LET v == serv_config[section_name][CHOOSE k \in found : TRUE]
             sub == IF \E i \in 1..Len(v) : v[i] = "%"
                    THEN InterpolateSome(section_name, v, depth + 1)
                    ELSE [ok |-> TRUE, s |-> v]
         IN
         IF ~sub.ok THEN sub
         ELSE
         LET r == InterpolateSome(
                      section_name, SubSeq(rest, j + 2, Len(rest)), depth)
         IN  IF r.ok THEN [ok |-> TRUE, s |-> sub.s \o r.s] ELSE r
    ELSE InterpolationError

\* serv_config.get(section_name, field_name): NoSectionError or
\* NoOptionError without the entry, else the interpolated value
GetString(section_name, field_name) ==
    IF ~HasSectionAndKey(section_name, field_name) THEN InterpolationError
    ELSE InterpolateSome(
             section_name, serv_config[section_name][field_name], 1)

\* getter(section_name, field_name) for a getter that exists: get gives the
\* string, getint int() of it, getboolean the BOOLEAN_STATES entry of its
\* lower case; ok is FALSE when the call raises.
Getter(config_getter, section_name, field_name) ==
    LET got == GetString(section_name, field_name) IN
    IF ~got.ok THEN [ok |-> FALSE, value |-> PyFalse]
    ELSE
    CASE config_getter = "get" -> [ok |-> TRUE, value |-> MkStr(got.s)]
      [] config_getter = "getint" ->
            IF IsIntLiteral(got.s)
            THEN [ok |-> TRUE, value |-> MkInt(ParseInt(got.s))]
            ELSE [ok |-> FALSE, value |-> PyFalse]
      [] config_getter = "getboolean" ->
            IF got.s \in TrueLiterals
            THEN [ok |-> TRUE, value |-> MkBool(TRUE)]
            ELSE IF got.s \in FalseLiterals
            THEN [ok |-> TRUE, value |-> MkBool(FALSE)]
            ELSE [ok |-> FALSE, value |-> PyFalse]

(***************************************************************************)
(* Resolution                                                              *)
(***************************************************************************)
\* self.ensure_one()
ensure_one(self) == Len(self) = 1

\* _server_env_section_name: ValueError from ensure_one on a recordset that
\* is no singleton, TypeError from str.join on a name that is False.
_server_env_section_name(self) ==
    IF ~ensure_one(self) THEN [status |-> "ValueError", section |-> <<>>]
    ELSE IF names[self[1]] = NameUnset
    THEN [status |-> "TypeError", section |-> <<>>]
    ELSE [status |-> "ok",
          section |-> Replace(_name) \o <<".">> \o names[self[1]]]

\* Mutant of _server_env_read_from_config: no try/except around the lookup.
MutReadPropagates(self, section_name, field_name, config_getter) ==
    IF ~ensure_one(self)
    THEN [status |-> "ValueError", value |-> PyFalse, logged |-> {}]
    ELSE IF ~HasGetter[config_getter]
    THEN [status |-> "AttributeError", value |-> PyFalse, logged |-> {}]
    ELSE IF ~Getter(config_getter, section_name, field_name).ok
    THEN [status |-> "ValueError", value |-> PyFalse, logged |-> {}]
    ELSE [status |-> "ok",
          value |-> Getter(config_getter, section_name, field_name).value,
          logged |-> {}]

\* _server_env_read_from_config: the bare except takes every exception of
\* the getattr and of the getter call, logs it and returns False.
_server_env_read_from_config(self, section_name, field_name, config_getter) ==
    IF ~ensure_one(self)
    THEN [status |-> "ValueError", value |-> PyFalse, logged |-> {}]
    ELSE IF ~HasGetter[config_getter]
            \/ ~Getter(config_getter, section_name, field_name).ok
    THEN [status |-> "ok", value |-> PyFalse,
          logged |-> {<<field_name, section_name>>}]
    ELSE [status |-> "ok",
          value |-> Getter(config_getter, section_name, field_name).value,
          logged |-> {}]

\* the (record, field) iterations of the two nested loops, in order
Work(self) ==
    [k \in 1..(Len(self) * Len(envFields)) |->
        [record |-> self[((k - 1) \div Len(envFields)) + 1],
         field |-> envFields[((k - 1) % Len(envFields)) + 1]]]

\* Mutant of the resolution: a companion value that is set wins over the
\* configuration.
MutResolveDefaultFirst(self, record, section_name, field_name, getter_name) ==
    IF HasSectionAndKey(section_name, field_name)
       /\ defaults[record][field_name] = PyFalse
    THEN _server_env_read_from_config(
             self, section_name, field_name, getter_name)
    ELSE [status |-> "ok", value |-> defaults[record][field_name],
          logged |-> {}]

\* Mutant of the resolution: without a configuration entry the value is
\* False instead of the companion field's value.
MutResolveNoFallback(self, record, section_name, field_name, getter_name) ==
    IF HasSectionAndKey(section_name, field_name)
    THEN _server_env_read_from_config(
             self, section_name, field_name, getter_name)
    ELSE [status |-> "ok", value |-> PyFalse, logged |-> {}]

\* The body of the inner loop up to the assignment: the value for one
\* (record, field).  The lookup goes through self, the fallback read
\* record[default_field] through record.
ResolveField(self, record, section_name, field_name, getter_name) ==
    IF HasSectionAndKey(section_name, field_name)
    THEN _server_env_read_from_config(
             self, section_name, field_name, getter_name)
    ELSE [status |-> "ok", value |-> defaults[record][field_name],
          logged |-> {}]

\* The two nested loops.  An exception ends them; the assignments made
\* before it stay.
RECURSIVE ComputeLoop(_, _, _, _)
ComputeLoop(self, todo, vals, log) ==
    IF todo = <<>> THEN [status |-> "ok", values |-> vals, logged |-> log]
    ELSE
    LET record == Head(todo).record
        field_name == Head(todo).field.name
        sec == _server_env_section_name(self)
    IN
    IF sec.status # "ok"
    THEN [status |-> sec.status, values |-> vals, logged |-> log]
    ELSE
    LET rv == ResolveField(self, record, sec.section, field_name,
                           Head(todo).field.getter)
    IN
    IF rv.status # "ok"
    THEN [status |-> rv.status, values |-> vals, logged |-> log]
    ELSE ComputeLoop(self, Tail(todo),
                     [vals EXCEPT ![record][field_name] = rv.value],
                     log \cup rv.logged)

\* _compute_server_env on the recordset self.  The framework calls it only
\* on a model whose setup completed.
_compute_server_env(self) ==
    /\ setupStatus = "ok"
    /\ LET r == ComputeLoop(self, Work(self), values, logged) IN
        /\ values' = r.values
        /\ computeStatus' = r.status
        /\ logged' = r.logged
    /\ UNCHANGED <<envFields, serv_config, names, defaults>>
    /\ UNCHANGED setupVars

\* the values a write may store in a companion field of a field of class cls
ShadowValues(cls) ==
    IF cls = "Char" THEN {PyFalse, MkStr(<<"d">>)} ELSE {PyFalse, MkInt(7)}

\* record.write({'<field>_env_default': v}): a plain write to the companion
\* field, which exists once setup has run
WriteDefault(record, field_name, v) ==
    /\ setupStatus = "ok"
    /\ field_name \in EnvNames
    /\ v \in ShadowValues(_fields[field_name].cls)
    /\ defaults[record][field_name] # v
    /\ defaults' = [defaults EXCEPT ![record][field_name] = v]
    /\ UNCHANGED <<envFields, serv_config, names, values, computeStatus, logged>>
    /\ UNCHANGED setupVars

(***************************************************************************)
(* The whole model                                                         *)
(***************************************************************************)
Recordsets ==
    {<<>>} \cup {<<r>> : r \in RecordIds}
    \cup {<<r1, r2>> : <<r1, r2>> \in {q \in RecordIds \X RecordIds : q[1] # q[2]}}

\* raw values as a file gives them, stripped: empty, an integer that is a
\* boolean too, a signed integer; host may refer to the option port, port
\* may hold a % that is no reference
HostValues ==
    {<<>>, <<"1">>, <<"-", "5">>, <<"%", "(", "p", "o", "r", "t", ")", "s">>}
PortValues == {<<>>, <<"1">>, <<"-", "5">>, <<"5", "0", "%">>}
RawValues(key) == IF key = Host THEN HostValues ELSE PortValues

SectionA == Replace(_name) \o <<".", "A">>
SectionB == Replace(_name) \o <<".", "B">>

\* Configurations: [s_b.B] holds host only; [s_b.A] is absent or holds any
\* part of host and port with any raw value.
SectionAChoices ==
    UNION {{m \in [keys -> HostValues \cup PortValues] :
               \A key \in keys : m[key] \in RawValues(key)} :
           keys \in SUBSET BaseNames}

SectionBOnly == [s \in {SectionB} |-> [k \in {Host} |-> <<"a", "b">>]]

ConfigChoices ==
    {SectionBOnly} \cup
    {[s \in {SectionA, SectionB} |->
         IF s = SectionA THEN m ELSE SectionBOnly[SectionB]] :
        m \in SectionAChoices}

Init ==
    /\ _fields = DeclaredModel(BaseNames, TRUE)
    /\ envFields \in EnvFieldChoices
    /\ addCalls = [n \in FieldNames |-> 0]
    /\ setupRuns = 0
    /\ setupStatus = "none"
    /\ names \in [RecordIds -> RecordNames]
    /\ defaults = [r \in RecordIds |-> [f \in BaseNames |-> PyFalse]]
    /\ values = NoRecords
    /\ serv_config \in ConfigChoices
    /\ computeStatus = "none"
    /\ logged = {}

Next ==
    \/ _setup_base
    \/ \E self \in Recordsets : _compute_server_env(self)
    \/ \E record \in RecordIds, field_name \in BaseNames :
         \E v \in ShadowValues("Char") \cup ShadowValues("Integer") :
            WriteDefault(record, field_name, v)

Spec == Init /\ [][Next]_vars

(***************************************************************************)
(* Properties                                                              *)
(***************************************************************************)
EnvIdx == 1..Len(envFields)

\* [model_name.Record Name] with the dots of the model name replaced
SectionOf(r) == <<"s", "_", "b", ".">> \o names[r]

Present(r, f) == HasSectionAndKey(SectionOf(r), f.name)

GetterSucceeds(r, f) ==
    /\ HasGetter[f.getter]
    /\ Getter(f.getter, SectionOf(r), f.name).ok

ConfigValue(r, f) == Getter(f.getter, SectionOf(r), f.name).value

IsEmpty(v) == v \in {PyFalse, MkStr(<<>>), MkInt(0)}

\* the value the documented rules give the field f of record r
Expected(r, f) ==
    IF Present(r, f)
    THEN IF GetterSucceeds(r, f) THEN ConfigValue(r, f) ELSE PyFalse
    ELSE defaults[r][f.name]

\* a step of _compute_server_env(self); the first two conjuncts follow from
\* the third and are there to decide the other steps quickly
IsCompute(self) ==
    /\ defaults' = defaults
    /\ setupRuns' = setupRuns
    /\ _compute_server_env(self)

Completed(self) == computeStatus' = "ok" /\ IsCompute(self)

AllNamed(self) == \A i \in 1..Len(self) : names[self[i]] # NameUnset

\* C1 (precedence): after a compute that completes, a field whose section
\* and key are in the configuration holds the value the getter returns,
\* whatever the companion field holds; an empty key gives an empty value.
C1_Precedence ==
    [][\A self \in Recordsets : Completed(self) =>
        \A i \in 1..Len(self), k \in EnvIdx :
            LET r == self[i]
                f == envFields[k]
            IN  Present(r, f) =>
                  /\ GetterSucceeds(r, f) =>
                        values'[r][f.name] = ConfigValue(r, f)
                  /\ serv_config[SectionOf(r)][f.name] = <<>> =>
                        IsEmpty(values'[r][f.name])]_vars

\* a computed field holds the configuration value although its companion
\* field holds another value
C1_Witness ==
    \E r \in RecordIds, k \in EnvIdx :
        LET f == envFields[k] IN
        /\ computeStatus = "ok"
        /\ Present(r, f) /\ GetterSucceeds(r, f)
        /\ defaults[r][f.name] # PyFalse
        /\ values[r][f.name] = ConfigValue(r, f)
        /\ values[r][f.name] # defaults[r][f.name]

\* C2 (fallback): after a compute that completes, a field whose section or
\* key is not in the configuration holds the current value of the record's
\* own companion field, False when it was never set.
C2_Fallback ==
    [][\A self \in Recordsets : Completed(self) =>
        \A i \in 1..Len(self), k \in EnvIdx :
            LET r == self[i]
                f == envFields[k]
            IN  ~Present(r, f) =>
                    values'[r][f.name] = defaults[r][f.name]]_vars

\* a computed field without configuration entry holds the written default
C2_Witness ==
    \E r \in RecordIds, k \in EnvIdx :
        LET f == envFields[k] IN
        /\ computeStatus = "ok"
        /\ ~Present(r, f)
        /\ defaults[r][f.name] # PyFalse
        /\ values[r][f.name] = defaults[r][f.name]

\* some (record, field) of the batch has a configuration entry, some has not
Mixed(self) ==
    /\ \E i \in 1..Len(self), k \in EnvIdx : Present(self[i], envFields[k])
    /\ \E i \in 1..Len(self), k \in EnvIdx : ~Present(self[i], envFields[k])

\* C3 (batch): a compute on two or more named records with mixed entries
\* completes and gives every record the value of its own section or its own
\* companion field.
C3_BatchResolved ==
    [][\A self \in Recordsets :
        (Len(self) >= 2 /\ AllNamed(self) /\ Mixed(self)
            /\ IsCompute(self)) =>
        /\ computeStatus' = "ok"
        /\ \A i \in 1..Len(self), k \in EnvIdx :
              values'[self[i]][envFields[k].name]
                  = Expected(self[i], envFields[k])]_vars

\* C4 (resilience): a getter that raises for a present key does not end the
\* compute: the field gets False, the error is logged, and the other fields
\* of the recordset get their values.
C4_Resilience ==
    [][\A self \in Recordsets :
        (Len(self) = 1 /\ AllNamed(self) /\ IsCompute(self)) =>
        /\ computeStatus' = "ok"
        /\ \A k \in EnvIdx :
              LET r == self[1]
                  f == envFields[k]
              IN  /\ (Present(r, f) /\ ~GetterSucceeds(r, f)) =>
                        /\ values'[r][f.name] = PyFalse
                        /\ <<f.name, SectionOf(r)>> \in logged'
                  /\ values'[r][f.name] = Expected(r, f)]_vars

\* the first field's getter raised and was logged, the field after it has
\* its configuration value
C4_Witness ==
    \E r \in RecordIds :
        /\ computeStatus = "ok"
        /\ Len(envFields) = 2
        /\ Present(r, envFields[1]) /\ ~GetterSucceeds(r, envFields[1])
        /\ values[r][envFields[1].name] = PyFalse
        /\ <<envFields[1].name, SectionOf(r)>> \in logged
        /\ Present(r, envFields[2]) /\ GetterSucceeds(r, envFields[2])
        /\ values[r][envFields[2].name] = ConfigValue(r, envFields[2])

\* C5 (no exception): a compute on any recordset, named or not, raises
\* nothing and leaves in every field the configuration value, the companion
\* field's value or an empty value.
C5_NeverRaises ==
    [][\A self \in Recordsets : IsCompute(self) =>
        /\ computeStatus' = "ok"
        /\ \A i \in 1..Len(self), k \in EnvIdx :
              LET r == self[i]
                  f == envFields[k]
              IN  \/ Present(r, f) /\ GetterSucceeds(r, f)
                        /\ values'[r][f.name] = ConfigValue(r, f)
                  \/ values'[r][f.name] = defaults[r][f.name]
                  \/ IsEmpty(values'[r][f.name])]_vars

\* C6 as stated: after a completed setup every <field>_env_default exists
\* and is stored in server_env_defaults, also when a field of that name was
\* declared before setup.
C6_ShadowAlwaysSparse ==
    setupStatus = "ok" =>
        \A n \in EnvNames :
            /\ _server_env_default_fieldname(n) \in DOMAIN _fields
            /\ _fields[_server_env_default_fieldname(n)].attrs.sparse
                   = "server_env_defaults"

\* C6 (amended): after a completed setup every <field>_env_default exists,
\* and the ones setup created are stored in server_env_defaults.
C6_ShadowExists ==
    setupStatus = "ok" =>
        \A n \in EnvNames :
            LET d == _server_env_default_fieldname(n) IN
            /\ d \in DOMAIN _fields
            /\ addCalls[d] > 0 =>
                  _fields[d].attrs.sparse = "server_env_defaults"

\* setup created one companion field and found another one declared
C6_Witness ==
    /\ setupStatus = "ok"
    /\ \E n \in EnvNames :
          /\ addCalls[_server_env_default_fieldname(n)] = 1
          /\ _fields[_server_env_default_fieldname(n)].attrs.sparse
                 = "server_env_defaults"
    /\ \E n \in EnvNames :
          /\ addCalls[_server_env_default_fieldname(n)] = 0
          /\ _fields[_server_env_default_fieldname(n)].attrs.sparse = "None"

\* C7 (idempotence): a second or later setup changes neither the fields,
\* their flags, the outcome nor the number of companion fields added, and a
\* setup that completes leaves one companion field per declared field,
\* added at most once.
C7_Idempotent ==
    [][_setup_base =>
        /\ setupRuns >= 1 =>
              /\ _fields' = _fields
              /\ addCalls' = addCalls
              /\ setupStatus' = setupStatus
        /\ setupStatus' = "ok" =>
              \A n \in EnvNames :
                 /\ _server_env_default_fieldname(n) \in DOMAIN _fields'
                 /\ addCalls'[_server_env_default_fieldname(n)] <= 1]_vars

\* setup ran twice and the companion field was added once
C7_Witness ==
    /\ setupRuns >= 2
    /\ setupStatus = "ok"
    /\ \E n \in EnvNames : addCalls[_server_env_default_fieldname(n)] = 1

\* C8 (missing field): when a name of _server_env_fields is no field of the
\* model, setup ends with the lookup error and adds no companion field for
\* that name.
C8_FailsLoudly ==
    (setupRuns >= 1 /\ \E n \in EnvNames : n \notin DOMAIN _fields) =>
        /\ setupStatus = "KeyError"
        /\ \A n \in EnvNames \ DOMAIN _fields :
              /\ addCalls[_server_env_default_fieldname(n)] = 0
              /\ _server_env_default_fieldname(n) \in DOMAIN _fields =>
                    _fields[_server_env_default_fieldname(n)].attrs.automatic
                        = "False"

\* setup ended with KeyError after it had transformed an earlier field
C8_Witness ==
    /\ setupStatus = "KeyError"
    /\ Len(envFields) = 2
    /\ envFields[1].name \in DOMAIN _fields
    /\ _fields[envFields[1].name].attrs.compute = "_compute_server_env"
    /\ envFields[2].name \notin DOMAIN _fields

\* C9 (computed, not stored): once setup completed, and after any further
\* setup, write or compute, every field of _server_env_fields has compute =
\* '_compute_server_env', store = False, copy = False and sparse = None;
\* a compute changes slots of these fields only and no companion value.
C9_ComputedNotStored ==
    [][/\ setupStatus' = "ok" =>
            \A n \in EnvNames :
                /\ _fields'[n].attrs.compute = "_compute_server_env"
                /\ _fields'[n].attrs.store = "False"
                /\ _fields'[n].attrs.copy = "False"
                /\ _fields'[n].attrs.sparse = "None"
       /\ \A self \in Recordsets : IsCompute(self) =>
            /\ defaults' = defaults
            /\ \A r \in RecordIds, n \in BaseNames :
                  values'[r][n] # values[r][n] => n \in EnvNames]_vars

\* after two setups, a write and a compute, host, declared with
\* sparse='legacy_blob', is computed and not sparse
C9_Witness ==
    /\ setupStatus = "ok"
    /\ setupRuns >= 2
    /\ Host \in EnvNames
    /\ _fields[HostDefault].args.sparse = "server_env_defaults"
    /\ _fields[Host].attrs.sparse = "None"
    /\ \E r \in RecordIds :
          /\ defaults[r][Host] # PyFalse
          /\ values[r][Host] # NotComputed

\* C10 (clone): when setup adds the companion field of a field, the new
\* field has the field's class and its constructor arguments without
\* '_sequence' and with sparse and automatic, and the field's own
\* constructor arguments are what they were before.
C10_CloneKeepsOriginal ==
    [][_setup_base =>
        \A n \in EnvNames :
            LET d == _server_env_default_fieldname(n) IN
            (n \in DOMAIN _fields /\ d \notin DOMAIN _fields
                /\ d \in DOMAIN _fields') =>
            /\ _fields'[d].cls = _fields[n].cls
            /\ _fields'[d].args = Update(Pop(_fields[n].args, "_sequence"))
            /\ _fields'[n].args = _fields[n].args]_vars

=============================================================================
